---- MODULE Spec2Model ----
(***************************************************************************)
(* Model of WorkflowExecutor (src/workflow_runner.py): the constructor,    *)
(* run() with its variable initialisation, entry lookup, context seeding   *)
(* and wave traversal, and execute_node() for every node type.             *)
(*                                                                         *)
(* Python values are tagged records [t, v]: t is the Python type, v the    *)
(* payload.  A dict is a function from its keys, a list a sequence.  A     *)
(* node's data and an edge are records whose DOMAIN is the set of keys     *)
(* present, so dict.get(key, default) is Get(d, key, default).             *)
(* Log lines are tuples of the parts that the f-string formats.            *)
(***************************************************************************)
EXTENDS Integers, Sequences, FiniteSets, TLC

(* ---------------------------- Python values --------------------------- *)
Str(s) == [t |-> "str", v |-> s]

Num(n) == [t |-> "num", v |-> n]

Bool(b) == [t |-> "bool", v |-> b]

List(s) == [t |-> "list", v |-> s]

Dict(f) == [t |-> "dict", v |-> f]

None == [t |-> "none", v |-> 0]

\* the empty dict {} : a function with no key
EmptyMap == [k \in {} |-> None]

\* dict.get(key, default) on a mapping d
Get(d, k, default) == IF k \in DOMAIN d THEN d[k] ELSE default

\* d[k] = x on a mapping d (insert or overwrite)
Put(d, k, x) == [j \in (DOMAIN d) \cup {k} |-> IF j = k THEN x ELSE d[j]]

\* Python truth value of a value, as used by "if var_name:" and "if input_data.get('query'):"
Truthy(x) ==
  CASE x.t = "none" -> FALSE
    [] x.t = "bool" -> x.v
    [] x.t = "num" -> x.v # 0
    [] x.t = "float" -> x.v[1] # 0
    [] x.t = "str" -> x.v # ""
    [] x.t = "list" -> Len(x.v) > 0
    [] x.t = "dict" -> DOMAIN x.v # {}

\* A list or dict that a variable node stores is the object of the node's
\* data itself, not a copy: the context entry carries in ref the id of the
\* node whose configured value it is, and a write into the object is a
\* write into the graph.
Shared(x, id) == [t |-> x.t, v |-> x.v, ref |-> id]

\* a value that can be used as a dict key (lists and dicts are unhashable)
Hashable(x) == x.t \notin {"list", "dict"}

(* ------------------------------ bounds -------------------------------- *)
\* longest collection a loop node of the workflow family iterates over
MaxItems == 3

\* number of run() calls made on one executor in SpecRerun
MaxRuns == 2

\* the one long iteration: a collection of LongLen elements and a loop body
\* of ChainLen nodes in a row; it needs more waves than the wave limit allows
LongLen == 31

ChainLen == 32

(* --------------------------- program constant -------------------------- *)
\* "while current_nodes and entry_count < 1000"
WaveLimit == 1000

\* the key of the loop-state mapping inside the context
LoopKey == "_loop_states"

\* edge.get('sourceHandle') of an edge without the key
NoHandle == "<None>"

(* ------------------ strings of the workflow family --------------------- *)
\* The strings that occur as templates in the workflows below.  A string s
\* with s.startswith('{') and s.endswith('}') and s.count('{') == 1 is an
\* exact reference; BraceKey gives s[1:-1] for it.
ExactRefs == {"{items}", "{x}", "{nokey}", "{item}"}

IsExactRef(s) == s \in ExactRefs

BraceKey(s) ==
  CASE s = "{items}" -> "items"
    [] s = "{x}" -> "x"
    [] s = "{nokey}" -> "nokey"
    [] s = "{item}" -> "item"
    [] OTHER -> s

\* strings s with s.startswith('body.') and the parts of s.split('.')[1:]
BodyPaths == {"body.items", "body.user.items"}

PathParts(s) ==
  CASE s = "body.items" -> <<"items">>
    [] s = "body.user.items" -> <<"user", "items">>
    [] OTHER -> <<>>

\* body texts of response nodes with one placeholder
TotalBody == "{\"total\": {sum}}"

NameBody == "{\"name\": \"{s}\"}"

Items(n) == List([i \in 1..n |-> Num(10 * i)])

(* ------------------------- the workflow family ------------------------- *)
\* workflow_data dicts handed to the constructor.  Node and edge builders:
Node(id, type, data) == [id |-> id, type |-> type, data |-> data]

Edge(s, tg) == [source |-> s, target |-> tg]

EdgeH(s, tg, h) == [source |-> s, target |-> tg, sourceHandle |-> h]

Api == Node("a", "api", [label |-> Str("New api")])

Fn(id) == Node(id, "function", [name |-> Str(id)])

Var(id, name, value) == Node(id, "variable", [name |-> name, value |-> value])

RespVar(id, name) == Node(id, "response", [responseType |-> Str("variable"), body |-> Str(name)])

Loop(id, coll, var) == Node(id, "loop", [collection |-> Str(coll), variable |-> Str(var)])

Logic(id, cond) == Node(id, "logic", [condition |-> cond])

IdField == Dict([name |-> Str("id"), required |-> Bool(TRUE), type |-> Str("number")])

\* an optional boolean field, and a field description without a name
FlagField == Dict([name |-> Str("flag"), type |-> Str("boolean")])

NamelessField == Dict([required |-> Bool(TRUE), type |-> Str("object")])

\* the workflow embedded in src/main.py
WfMain == [nodes |-> <<Api>>, edges |-> <<>>]

\* entry, a reachable variable, a response; one variable nobody reaches
WfLinear ==
  [nodes |-> <<Api, Var("v", Str("x"), Num(1)), RespVar("r", "x"), Var("u", Str("y"), Str("{x}"))>>,
   edges |-> <<Edge("a", "v"), Edge("v", "r")>>]

\* a logic node with a true edge, a false edge and an edge without handle
WfLogic(cond) ==
  [nodes |-> <<Var("v", Str("x"), Num(11)), Api, Logic("l", cond), Fn("t"), Fn("f"), Fn("n")>>,
   edges |-> <<Edge("a", "l"), EdgeH("l", "t", "true"), EdgeH("l", "f", "false"),
               Edge("l", "n"), EdgeH("l", "n", "do")>>]

\* fan-in: m is the target of a doubled edge of f1 and of an edge of f2
WfFanIn ==
  [nodes |-> <<Api, Fn("f1"), Fn("f2"), Fn("m")>>,
   edges |-> <<Edge("a", "f1"), Edge("a", "f2"), Edge("a", "f1"),
               Edge("f1", "m"), Edge("f1", "m"), Edge("f2", "m")>>]

\* a loop over a variable of n items: body b leads back, done leads to c
WfLoop(n) ==
  [nodes |-> <<Api, Var("v", Str("items"), Items(n)), Loop("L", "{items}", "item"), Fn("b"), Fn("c")>>,
   edges |-> <<Edge("a", "L"), EdgeH("L", "b", "do"), Edge("b", "L"), EdgeH("L", "c", "done"),
               Edge("L", "c"), EdgeH("L", "b", "true")>>]

\* the same with a body of m nodes in a row: b, b2, ..., bm
BodyId(i) == IF i = 1 THEN "b" ELSE "b" \o ToString(i)

Step(id) == Node(id, "api", [label |-> Str(id)])

WfLoopChain(n, m) ==
  [nodes |-> <<Api, Var("v", Str("items"), Items(n)), Loop("L", "{items}", "item")>>
               \o [i \in 1..m |-> Step(BodyId(i))] \o <<Fn("c")>>,
   edges |-> <<Edge("a", "L"), EdgeH("L", "b", "do"), EdgeH("L", "c", "done")>>
               \o [i \in 1..(m - 1) |-> Edge(BodyId(i), BodyId(i + 1))]
               \o <<Edge(BodyId(m), "L")>>]

\* a loop over the request body whose first iteration ends the run
WfLoopResp ==
  [nodes |-> <<Api, Loop("L", "body.items", "item"), RespVar("r", "{item}")>>,
   edges |-> <<Edge("a", "L"), EdgeH("L", "r", "do")>>]

\* two loop nodes in one wave
WfTwoLoops ==
  [nodes |-> <<Api, Var("v", Str("items"), Items(2)), Loop("L", "items", "item"),
               Loop("K", "body", "k"), Fn("c")>>,
   edges |-> <<Edge("a", "L"), Edge("a", "K"), EdgeH("L", "L", "do"), EdgeH("K", "K", "do"),
               EdgeH("L", "c", "done"), EdgeH("K", "c", "done")>>]

\* a cycle without a response node
WfCycle ==
  [nodes |-> <<Api, Fn("f")>>,
   edges |-> <<Edge("a", "a"), Edge("f", "a")>>]

\* an edge whose target is no node
WfDangling ==
  [nodes |-> <<Api, Fn("f")>>,
   edges |-> <<Edge("a", "f"), Edge("a", "ghost")>>]

\* no api node: with a variable node, and without
WfNoApiVar ==
  [nodes |-> <<Var("v", Str("x"), Num(1)), Fn("f")>>,
   edges |-> <<Edge("f", "v")>>]

WfNoApi == [nodes |-> <<Fn("f")>>, edges |-> <<>>]

\* no api node and a variable node whose name is a list (unhashable)
WfNoApiBadVar ==
  [nodes |-> <<Var("v", Str("x"), Num(1)), Var("w", List(<<Str("x")>>), Num(2)), Fn("f")>>,
   edges |-> <<>>]

\* an api node without data
WfNoData == [nodes |-> <<[id |-> "a", type |-> "api"]>>, edges |-> <<>>]

\* a variable node whose name is a list (unhashable), before the api node
WfBadVarName ==
  [nodes |-> <<Var("v", Str("x"), Num(1)), Var("w", List(<<Str("x")>>), Num(2)), Api>>,
   edges |-> <<>>]

\* the same node reached by the traversal only: it is not of type variable
WfBadLogic ==
  [nodes |-> <<Api, Fn("f"), Logic("l", Num(5)), Fn("g")>>,
   edges |-> <<Edge("a", "f"), Edge("f", "l"), EdgeH("l", "g", "false")>>]

\* an interface node validating the body
WfInterface ==
  [nodes |-> <<Api, Node("i", "interface", [fields |-> List(<<IdField, NamelessField, FlagField>>)]), Fn("f")>>,
   edges |-> <<Edge("a", "i"), Edge("i", "f")>>]

\* a response node and a sibling in the same wave
WfRespSibling ==
  [nodes |-> <<Api, Var("v", Str("x"), Num(1)), RespVar("r", "x"), Var("s", Str("x"), Num(2)), Fn("f")>>,
   edges |-> <<Edge("a", "r"), Edge("a", "s"), Edge("s", "f"), Edge("r", "f")>>]

\* the same with a math node as the sibling: it is not executed before the
\* waves, as a variable node is
WfRespMath ==
  [nodes |-> <<Api, Var("v", Str("out"), Num(1)), RespVar("r", "out"),
               Node("m", "math", [valA |-> Str("3"), valB |-> Str("4"), op |-> Str("+"),
                                  resultVar |-> Str("out")]),
               Fn("f")>>,
   edges |-> <<Edge("a", "r"), Edge("a", "m"), Edge("m", "f"), Edge("r", "f")>>]

\* two math nodes of one wave that write the same variable
WfTwoWriters ==
  [nodes |-> <<Api,
               Node("m", "math", [valA |-> Str("3"), valB |-> Str("4"), op |-> Str("+"),
                                  resultVar |-> Str("out")]),
               Node("n", "math", [valA |-> Str("3"), valB |-> Str("4"), op |-> Str("*"),
                                  resultVar |-> Str("out")])>>,
   edges |-> <<Edge("a", "m"), Edge("a", "n")>>]

\* variable nodes with an empty name and without a name
WfNoName ==
  [nodes |-> <<Api, Var("v", Str(""), Num(1)), Node("w", "variable", [value |-> Num(2)]),
               Var("z", Str("z"), Str("plain"))>>,
   edges |-> <<Edge("a", "v")>>]

\* a variable node named like the loop-state key
WfLoopKey ==
  [nodes |-> <<Api, Var("v", Str(LoopKey), Num(1)), Loop("L", "body", "item")>>,
   edges |-> <<Edge("a", "L"), EdgeH("L", "L", "do")>>]

\* a variable node whose configured value, a mapping, is stored under the
\* loop-state key
WfLoopAlias ==
  [nodes |-> <<Api, Var("v", Str(LoopKey), Dict(EmptyMap)), Loop("L", "body.items", "item"), Fn("c")>>,
   edges |-> <<Edge("a", "L"), EdgeH("L", "L", "do"), EdgeH("L", "c", "done")>>]

\* the nodes that write the context under the name the graph gives them,
\* here the loop-state key: a math node, a data_op node, a loop node
Writers ==
  {Node("W", "math", [valA |-> Str("3"), valB |-> Str("4"), op |-> Str("+"),
                      resultVar |-> Str(LoopKey)]),
   Node("W", "data_op", [collection |-> Str("{items}"), op |-> Str("count"),
                         resultVar |-> Str(LoopKey)]),
   Loop("W", "{items}", LoopKey)}

\* a loop K whose body is such a node
WfLoopWriter(writer) ==
  [nodes |-> <<Api, Var("v", Str("items"), Items(2)), Loop("K", "{items}", "k"), writer, Fn("c")>>,
   edges |-> <<Edge("a", "K"), EdgeH("K", "W", "do"), EdgeH("W", "K", "do"),
               EdgeH("K", "c", "done")>>]

\* a response node whose body text holds a string variable between quotes
WfQuote(value) ==
  [nodes |-> <<Api, Var("v", Str("s"), Str(value)),
               Node("r", "response", [body |-> Str(NameBody)]), Fn("f")>>,
   edges |-> <<Edge("a", "r"), Edge("r", "f")>>]

\* response nodes without data, and with a name that is not a string
WfRespBare ==
  [nodes |-> <<Api, Fn("f"), [id |-> "r", type |-> "response"]>>,
   edges |-> <<Edge("a", "f"), Edge("f", "r")>>]

WfRespBadBody ==
  [nodes |-> <<Api, Fn("f"), Fn("g"),
               Node("r", "response", [responseType |-> Str("variable"), body |-> List(<<Str("x")>>)])>>,
   edges |-> <<Edge("a", "f"), Edge("f", "g"), Edge("g", "r")>>]

\* math and data_op nodes writing their resultVar
WfMath ==
  [nodes |-> <<Api,
               Node("m", "math", [valA |-> Str("3"), valB |-> Str("4"), op |-> Str("+"), resultVar |-> Str("sum")]),
               Node("d", "data_op", [collection |-> Str("body.items"), op |-> Str("count")]),
               Node("q", "math", [valA |-> Str("{x}"), valB |-> Num(0), op |-> Str("/")]),
               Node("r", "response", [body |-> Str("{\"total\": {sum}}")])>>,
   edges |-> <<Edge("a", "m"), Edge("m", "d"), Edge("d", "q"), Edge("q", "r")>>]

\* one math node writing over a variable that holds a value already
WfCalc(a, op, b) ==
  [nodes |-> <<Api, Var("v", Str("out"), Str("old")),
               Node("m", "math", [valA |-> a, valB |-> b, op |-> Str(op), resultVar |-> Str("out")]),
               Fn("c")>>,
   edges |-> <<Edge("a", "m"), Edge("m", "c")>>]

\* the operands and operators of the calculators
OperandsA == {Str("3"), Str("1.5"), Str("abc"), Bool(TRUE)}

OperandsB == {Str("4"), Str("0"), Str("1.5"), Str("abc"), Num(2)}

Operators == {"+", "-", "*", "/", "%", "^"}

Workflows ==
  {WfMain, WfLinear, WfFanIn, WfLoopResp, WfTwoLoops, WfCycle, WfDangling, WfNoApiVar,
   WfNoApi, WfNoApiBadVar, WfNoData, WfBadVarName, WfBadLogic, WfInterface, WfRespSibling, WfNoName, WfLoopKey,
   WfLoopAlias, WfMath, WfRespBare, WfRespBadBody, WfRespMath, WfTwoWriters}
  \cup {WfQuote(value) : value \in {"ab", "a\"b"}}
  \cup {WfLoop(n) : n \in 0..MaxItems}
  \cup {WfLoopChain(LongLen, ChainLen)}
  \cup {WfLoopWriter(writer) : writer \in Writers}
  \cup {WfLogic(c) : c \in {Str("1 === 1"), Str("x > 10"), Str("y > 10"), Str("x >"), Str("x !== 1"),
                             Str("(z := 5) > 'a'")}}
  \cup {WfCalc(a, op, b) : a \in OperandsA, op \in Operators, b \in OperandsB}

(* ------------------------------ the inputs ----------------------------- *)
\* input_data of run(): the record main.py builds, and the empty record
Request(body, query) ==
  Dict([method |-> Str("GET"), path |-> Str("/"), query |-> query,
        params |-> Dict(EmptyMap), body |-> body, headers |-> Dict(EmptyMap)])

Inputs ==
  {Dict(EmptyMap),
   Request(None, Dict(EmptyMap)),
   Request(Dict([items |-> Items(2), id |-> Num(7)]), Dict([q |-> Str("1")])),
   Request(Items(2), Dict(EmptyMap)),
   Request(Dict([id |-> Bool(TRUE)]), Dict(EmptyMap)),
   Request(Dict([id |-> Str("7"), flag |-> Num(1)]), Dict(EmptyMap)),
   Request(Dict(EmptyMap), Dict([q |-> Str("1")]))}

(* ---------------------------- the constructor -------------------------- *)
\* {node['id']: node for node in nodes}: the keys in insertion order ...
RECURSIVE NodeOrder(_)
NodeOrder(ns) ==
  IF ns = <<>> THEN <<>>
  ELSE LET front == NodeOrder(SubSeq(ns, 1, Len(ns) - 1))
           id == ns[Len(ns)].id
       IN  IF \E i \in 1..Len(front) : front[i] = id THEN front ELSE Append(front, id)

\* ... and the mapping itself: the last node with an id wins
NodeMap(ns) ==
  [id \in {ns[i].id : i \in 1..Len(ns)} |->
     ns[CHOOSE i \in 1..Len(ns) : ns[i].id = id /\ \A j \in (i + 1)..Len(ns) : ns[j].id # id]]

\* the adjacency index: source id -> list of {target, handle}, in edge order
RECURSIVE Adjacency(_)
Adjacency(es) ==
  IF es = <<>> THEN EmptyMap
  ELSE LET adj == Adjacency(SubSeq(es, 1, Len(es) - 1))
           edge == es[Len(es)]
           entry == [target |-> edge.target, handle |-> Get(edge, "sourceHandle", NoHandle)]
       IN  Put(adj, edge.source, Append(Get(adj, edge.source, <<>>), entry))

(* ------------------------- results of execute_node --------------------- *)
\* what execute_node returns: None, {"type": "logic", ...}, {"type": "loop", ...}
\* or {"type": "response", "data": ...}
ResNone == [type |-> "none"]

ResLogic(b) == [type |-> "logic", result |-> IF b THEN "True" ELSE "False"]

ResLoop(r) == [type |-> "loop", result |-> r]

ResResponse(payload) == [type |-> "response", data |-> payload]

\* execute_node ends by returning res, or by raising exc; either way it has
\* changed the context and the log to ctx and log
Ret(ctx, log, res) == [ctx |-> ctx, log |-> log, res |-> res, exc |-> "none"]

Raise(ctx, log, e) == [ctx |-> ctx, log |-> log, res |-> ResNone, exc |-> e]

\* a return of the loop node, which has also written into the object wrote
RetWrote(ctx, log, res, wrote) ==
  [ctx |-> ctx, log |-> log, res |-> res, exc |-> "none", wrote |-> wrote]

\* self.nodes after execute_node: the object written into is a node's
\* configured value when it carries the node's id
Written(ns, r) ==
  IF "wrote" \in DOMAIN r /\ "ref" \in DOMAIN r.wrote
  THEN [ns EXCEPT ![r.wrote.ref].data.value = [t |-> r.wrote.t, v |-> r.wrote.v]]
  ELSE ns

(* ------------------------------ text helpers --------------------------- *)
\* the dict key a hashable value is: a string is itself
KeyOf(x) == IF x.t = "str" THEN x.v ELSE ToString(x)

\* A float is the fraction <<n, d>> it equals, d > 0, in lowest terms (the
\* numerals of the family are dyadic, so the arithmetic on them is exact).
RECURSIVE GCD(_, _)
GCD(a, b) == IF b = 0 THEN a ELSE GCD(b, a % b)

Abs(n) == IF n < 0 THEN -n ELSE n

Rat(n, d) ==
  LET g == GCD(Abs(n), Abs(d))
  IN  IF d > 0 THEN <<n \div g, d \div g>> ELSE <<(-n) \div g, (-d) \div g>>

RAdd(a, b) == Rat(a[1] * b[2] + b[1] * a[2], a[2] * b[2])

RSub(a, b) == Rat(a[1] * b[2] - b[1] * a[2], a[2] * b[2])

RMul(a, b) == Rat(a[1] * b[1], a[2] * b[2])

\* a / b and a % b for b # 0; the remainder has the sign of the divisor
RDiv(a, b) == Rat(a[1] * b[2], a[2] * b[1])

RMod(a, b) ==
  IF b[1] > 0
  THEN Rat((a[1] * b[2]) % (b[1] * a[2]), a[2] * b[2])
  ELSE Rat(-((-(a[1] * b[2])) % (-(b[1] * a[2]))), a[2] * b[2])

RLess(a, b) == a[1] * b[2] < b[1] * a[2]

\* float.is_integer()
IsInteger(a) == a[2] = 1

\* a value of type float: the float that equals the fraction r, or n / d
FloatOf(r) == [t |-> "float", v |-> r]

Frac(n, d) == FloatOf(Rat(n, d))

\* str(f) of a float: the floats the family computes are whole or halves
FloatStr(a) ==
  IF a[2] = 1 THEN ToString(a[1]) \o ".0"
  ELSE IF a[2] = 2 /\ a[1] > 0 THEN ToString(a[1] \div 2) \o ".5"
  ELSE ToString(a[1]) \o "/" \o ToString(a[2])

\* str(x) of a scalar
PyStr(x) ==
  CASE x.t = "str" -> x.v
    [] x.t = "num" -> ToString(x.v)
    [] x.t = "float" -> FloatStr(x.v)
    [] x.t = "bool" -> IF x.v THEN "True" ELSE "False"
    [] x.t = "none" -> "None"

\* float(x): the strings of the family that are numerals, numbers and booleans
Numerals == {"0", "3", "4", "1.5"}

NumeralValue(s) ==
  CASE s = "0" -> <<0, 1>> [] s = "3" -> <<3, 1>> [] s = "4" -> <<4, 1>> [] s = "1.5" -> <<3, 2>>

CanFloat(x) == x.t \in {"num", "bool", "float"} \/ (x.t = "str" /\ x.v \in Numerals)

Float(x) ==
  CASE x.t = "num" -> <<x.v, 1>>
    [] x.t = "float" -> x.v
    [] x.t = "bool" -> IF x.v THEN <<1, 1>> ELSE <<0, 1>>
    [] x.t = "str" -> NumeralValue(x.v)

\* json.loads(s) for the strings of the family: ok = FALSE is a parse error
JsonLoads(s) ==
  CASE s = "{}" -> [ok |-> TRUE, v |-> Dict(EmptyMap)]
    [] s = "[10, 20]" -> [ok |-> TRUE, v |-> Items(2)]
    [] s = "{\"total\": 7}" -> [ok |-> TRUE, v |-> Dict([total |-> Num(7)])]
    [] s = "{\"name\": \"ab\"}" -> [ok |-> TRUE, v |-> Dict([name |-> Str("ab")])]
    [] OTHER -> [ok |-> FALSE, v |-> None]

(* ------------------------------ _resolve_val --------------------------- *)
\* The strings of the family are exact references or hold no "{": the
\* interpolation branch leaves them as they are.
ResolveVal(val, ctx) ==
  IF val.t # "str" THEN val
  ELSE IF IsExactRef(val.v) THEN Get(ctx, BraceKey(val.v), val)
  ELSE val

(* ------------------------- execute_node: variable ---------------------- *)
\* The values of the family are exact references or hold no placeholder, so
\* the mixed interpolation of lines 186-189 replaces nothing in them.
ExecVariable(node, data, ctx, log) ==
  LET var_name == Get(data, "name", None)
      var_value == Get(data, "value", None)
      var_type == Get(data, "type", Str("string"))
      substituted ==
        IF var_value.t = "str" /\ IsExactRef(var_value.v) /\ BraceKey(var_value.v) \in DOMAIN ctx
        THEN ctx[BraceKey(var_value.v)]
        ELSE var_value
      parsed ==
        IF var_type \in {Str("json"), Str("array")} /\ substituted.t = "str"
             /\ JsonLoads(substituted.v).ok
        THEN JsonLoads(substituted.v).v
        ELSE substituted
      stored == IF var_value.t \in {"dict", "list"} THEN Shared(var_value, node.id) ELSE parsed
  IN  IF ~Truthy(var_name) THEN Ret(ctx, log, ResNone)
      ELSE IF ~Hashable(var_name) THEN Raise(ctx, log, "TypeError: unhashable type")
      ELSE Ret(Put(ctx, KeyOf(var_name), stored),
               Append(log, <<"Set Variable", KeyOf(var_name), parsed>>),
               ResNone)

(* --------------------------- execute_node: logic ----------------------- *)
\* raw_condition.replace('===', '==').replace('!==', '!=')
Normalise(raw) ==
  CASE raw = "1 === 1" -> "1 == 1"
    [] raw = "x !== 1" -> "x != 1"
    [] OTHER -> raw

\* what eval() did: the value and ok = TRUE, or the exception e; ctx is the
\* context afterwards (it is the locals mapping of the evaluation, so an
\* assignment expression writes to it)
Evaluated(v, ctx) == [ok |-> TRUE, v |-> v, e |-> "", ctx |-> ctx]

EvalRaised(e, ctx) == [ok |-> FALSE, v |-> FALSE, e |-> e, ctx |-> ctx]

\* "name > 10" with the context as the only names in scope
EvalGreater(name, ctx) ==
  IF name \notin DOMAIN ctx THEN EvalRaised("NameError", ctx)
  ELSE IF ctx[name].t \in {"num", "bool", "float"} THEN Evaluated(RLess(<<10, 1>>, Float(ctx[name])), ctx)
  ELSE EvalRaised("TypeError", ctx)

\* eval(condition, {"__builtins__": {}}, self.context) and bool() of it, for
\* the conditions of the family
Eval(condition, ctx) ==
  CASE condition = "1 == 1" -> Evaluated(TRUE, ctx)
    [] condition = "False" -> Evaluated(FALSE, ctx)
    [] condition = "x > 10" -> EvalGreater("x", ctx)
    [] condition = "y > 10" -> EvalGreater("y", ctx)
    [] condition = "x != 1" ->
         IF "x" \in DOMAIN ctx
         THEN Evaluated(~(CanFloat(ctx["x"]) /\ ctx["x"].t # "str" /\ Float(ctx["x"]) = <<1, 1>>), ctx)
         ELSE EvalRaised("NameError", ctx)
    [] condition = "(z := 5) > 'a'" -> EvalRaised("TypeError", Put(ctx, "z", Num(5)))
    [] OTHER -> EvalRaised("SyntaxError", ctx)

ExecLogic(node, data, ctx, log) ==
  LET raw_condition == Get(data, "condition", Str("False"))
      r == Eval(Normalise(raw_condition.v), ctx)
  IN  IF raw_condition.t # "str"
      THEN Raise(ctx, log, "AttributeError: no attribute 'replace'")
      ELSE IF r.ok
      THEN Ret(r.ctx, Append(log, <<"Logic", raw_condition.v, r.v>>), ResLogic(r.v))
      ELSE Ret(r.ctx, Append(log, <<"Logic Error", r.e>>), ResLogic(FALSE))

(* -------------------------- execute_node: function --------------------- *)
ExecFunction(node, data, ctx, log) ==
  Ret(ctx, Append(log, <<"Ran function", Get(data, "name", Str("func"))>>), ResNone)

(* ---------------------------- execute_node: loop ----------------------- *)
\* walking path_parts[1:] into the body
RECURSIVE WalkPath(_, _)
WalkPath(curr, parts) ==
  IF parts = <<>> THEN curr
  ELSE IF curr.t = "dict" THEN WalkPath(Get(curr.v, Head(parts), None), Tail(parts))
  ELSE List(<<>>)

\* the second pass over a collection that is still a string
LoopLookup(collection, ctx) ==
  IF collection.t # "str" THEN collection
  ELSE IF collection.v \in BodyPaths
  THEN WalkPath(Get(ctx, "body", Dict(EmptyMap)), PathParts(collection.v))
  ELSE IF collection.v = "body" THEN Get(ctx, "body", List(<<>>))
  ELSE IF collection.v \in DOMAIN ctx THEN ctx[collection.v]
  ELSE collection

\* {'index': n}
LoopState(n) == Dict([index |-> Num(n)])

\* the index without the reset at the end of the collection
NextIndexNoReset(idx, len) == IF idx < len THEN idx + 1 ELSE idx

\* lines 397-413: the index the node stores, idx + 1 on "do" and 0 on "done"
NextIndex(idx, len) == IF idx < len THEN idx + 1 ELSE 0

\* loop_states[node id] = state on the mapping setdefault returned
WithState(loop_states, id, n) == [loop_states EXCEPT !.v = Put(loop_states.v, id, LoopState(n))]

\* the context after that write: loop_states is still the context's entry
\* unless the bound variable has replaced that entry in between, and then
\* the write went to an object the context no longer holds
StoreLoopState(ctx, loop_states, id, n, replaced) ==
  IF replaced THEN ctx
  ELSE Put(ctx, LoopKey, WithState(loop_states, id, n))

ExecLoop(node, data, ctx, log) ==
  LET collection_source == Get(data, "collection", Str(""))
      item_var == Get(data, "variable", Str("item"))
      looked == LoopLookup(ResolveVal(collection_source, ctx), ctx)
      isList == looked.t = "list"
      collection == IF isList THEN looked.v ELSE <<>>
      log1 == IF isList THEN log ELSE Append(log, <<"Loop Error", collection_source, looked.t>>)
      ctx1 == IF LoopKey \in DOMAIN ctx THEN ctx ELSE Put(ctx, LoopKey, Dict(EmptyMap))
      loop_states == ctx1[LoopKey]
      id == node.id
      state == Get(loop_states.v, id, LoopState(0))
      idx == state.v["index"].v
      item == collection[idx + 1]
      bind == Truthy(item_var)
      ctx2 == IF bind THEN Put(ctx1, KeyOf(item_var), item) ELSE ctx1
      n == NextIndex(idx, Len(collection))
  IN  IF loop_states.t # "dict"
      THEN Raise(ctx1, log1, "AttributeError: no attribute 'get'")
      ELSE IF idx < Len(collection)
      THEN IF bind /\ ~Hashable(item_var)
           THEN Raise(ctx1, log1, "TypeError: unhashable type")
           ELSE RetWrote(StoreLoopState(ctx2, loop_states, id, n, bind /\ KeyOf(item_var) = LoopKey),
                         Append(log1, <<"Loop", id, "Item", idx, item>>),
                         ResLoop("do"),
                         WithState(loop_states, id, n))
      ELSE RetWrote(StoreLoopState(ctx1, loop_states, id, n, FALSE),
                    Append(log1, <<"Loop", id, "Done">>),
                    ResLoop("done"),
                    WithState(loop_states, id, n))

(* ---------------------------- execute_node: math ----------------------- *)
\* lines 234-239: res before the cast; a zero divisor of / gives the int 0,
\* an operator that is none of the five leaves res = 0
Arith(op, a, b) ==
  CASE op = Str("+") -> FloatOf(RAdd(a, b))
    [] op = Str("-") -> FloatOf(RSub(a, b))
    [] op = Str("*") -> FloatOf(RMul(a, b))
    [] op = Str("/") -> IF b[1] = 0 THEN Num(0) ELSE FloatOf(RDiv(a, b))
    [] op = Str("%") -> FloatOf(RMod(a, b))
    [] OTHER -> Num(0)

\* int(f): the fraction cut off towards zero
Trunc(a) == IF a[1] >= 0 THEN a[1] \div a[2] ELSE -((-a[1]) \div a[2])

\* lines 242-244: when both operands are whole, a result that is not whole
\* is cut off by int() (line 243) and the whole result becomes an int
Cast(res, a, b) ==
  IF res.t = "float" /\ IsInteger(a) /\ IsInteger(b) THEN Num(Trunc(res.v)) ELSE res

\* the except branch storing the concatenation for every operator
FallbackStoresAlways(op) == TRUE

\* "if op == '+'" of the except branch
FallbackStores(op) == op = Str("+")

ExecMath(node, data, ctx, log) ==
  LET val_a == ResolveVal(Get(data, "valA", None), ctx)
      val_b == ResolveVal(Get(data, "valB", None), ctx)
      op == Get(data, "op", Str("+"))
      result_var == Get(data, "resultVar", Str("result"))
      numeric == CanFloat(val_a) /\ CanFloat(val_b)
                   /\ ~(op = Str("%") /\ Float(val_b)[1] = 0) /\ Hashable(result_var)
      \* num_a and num_b are computed once, then res from them
      res == CHOOSE r \in {Cast(Arith(op, num_a, num_b), num_a, num_b) :
                             num_a \in {Float(val_a)}, num_b \in {Float(val_b)}} : TRUE
      text == Str(PyStr(val_a) \o PyStr(val_b))
  IN  IF numeric
      THEN Ret(Put(ctx, KeyOf(result_var), res),
               Append(log, <<"Math", Float(val_a), op, Float(val_b), res>>), ResNone)
      ELSE IF FallbackStores(op)
      THEN IF ~Hashable(result_var) THEN Raise(ctx, log, "TypeError: unhashable type")
           ELSE Ret(Put(ctx, KeyOf(result_var), text),
                    Append(log, <<"Math (Str)", val_a, val_b, text>>), ResNone)
      ELSE Ret(ctx, Append(log, <<"Math Error", val_a, op, val_b>>), ResNone)

(* --------------------------- execute_node: data_op --------------------- *)
\* the first-pass and second-pass resolution of the data_op collection
DataLookup(collection, ctx) ==
  IF collection.t # "str" THEN collection
  ELSE IF collection.v \in DOMAIN ctx THEN ctx[collection.v]
  ELSE IF collection.v = "body" THEN Get(ctx, "body", List(<<>>))
  ELSE collection

\* nums: the entries float() accepts, in order
RECURSIVE Nums(_)
Nums(coll) ==
  IF coll = <<>> THEN <<>>
  ELSE IF CanFloat(Head(coll)) THEN <<Float(Head(coll))>> \o Nums(Tail(coll))
  ELSE Nums(Tail(coll))

RECURSIVE SumSeq(_)
SumSeq(ns) == IF ns = <<>> THEN <<0, 1>> ELSE RAdd(Head(ns), SumSeq(Tail(ns)))

MinSeq(ns) == CHOOSE m \in {ns[i] : i \in 1..Len(ns)} : \A i \in 1..Len(ns) : ~RLess(ns[i], m)

MaxSeq(ns) == CHOOSE m \in {ns[i] : i \in 1..Len(ns)} : \A i \in 1..Len(ns) : ~RLess(m, ns[i])

\* lines 297-298: a whole float becomes an int
CleanInt(a) == IF IsInteger(a) THEN Num(a[1]) ELSE FloatOf(a)

Aggregate(op, coll) ==
  LET nums == Nums(coll)
  IN  CASE op = Str("count") -> Num(Len(coll))
        [] op = Str("sum") -> CleanInt(SumSeq(nums))
        [] op = Str("avg") ->
             IF nums = <<>> THEN Num(0) ELSE CleanInt(RDiv(SumSeq(nums), <<Len(nums), 1>>))
        [] op = Str("min") -> IF nums = <<>> THEN Num(0) ELSE CleanInt(MinSeq(nums))
        [] op = Str("max") -> IF nums = <<>> THEN Num(0) ELSE CleanInt(MaxSeq(nums))
        [] OTHER -> Num(0)

ExecDataOp(node, data, ctx, log) ==
  LET collection_source == Get(data, "collection", Str(""))
      op == Get(data, "op", Str("sum"))
      result_var == Get(data, "resultVar", Str("summary"))
      looked == DataLookup(ResolveVal(collection_source, ctx), ctx)
      isList == looked.t = "list"
      collection == IF isList THEN looked.v ELSE <<>>
      log1 == IF isList THEN log ELSE Append(log, <<"DataNode Error", looked>>)
      res == Aggregate(op, collection)
  IN  IF ~Hashable(result_var) THEN Raise(ctx, log1, "TypeError: unhashable type")
      ELSE Ret(Put(ctx, KeyOf(result_var), res),
               Append(log1, <<"Data Op", op, Len(collection), res>>), ResNone)

(* -------------------------- execute_node: interface -------------------- *)
\* "name in body": key test on a dict, element test on a list; other bodies
\* of the family (a number, a boolean, None) are not iterable
InBody(name, body) ==
  CASE body.t = "dict" -> KeyOf(name) \in DOMAIN body.v
    [] body.t = "list" -> \E i \in 1..Len(body.v) : body.v[i] = name

\* isinstance(val, ...) for the declared field type; bool is a subclass of int
TypeOk(f_type, val) ==
  CASE f_type = Str("string") -> val.t = "str"
    [] f_type = Str("number") -> val.t \in {"num", "bool", "float"}
    [] f_type = Str("boolean") -> val.t = "bool"
    [] f_type = Str("object") -> val.t = "dict"
    [] f_type = Str("array") -> val.t = "list"
    [] OTHER -> TRUE

FieldName(field) == Get(field.v, "name", None)

FieldMissing(field, body) ==
  Truthy(FieldName(field)) /\ Truthy(Get(field.v, "required", Bool(FALSE)))
    /\ ~InBody(FieldName(field), body)

FieldInvalid(field, body) ==
  Truthy(FieldName(field)) /\ ~FieldMissing(field, body) /\ InBody(FieldName(field), body)
    /\ ~TypeOk(Get(field.v, "type", Str("string")), body.v[KeyOf(FieldName(field))])

\* the missing list and the invalid_types list, in field order
RECURSIVE Missing(_, _)
Missing(fields, body) ==
  IF fields = <<>> THEN <<>>
  ELSE (IF FieldMissing(Head(fields), body) THEN <<FieldName(Head(fields))>> ELSE <<>>)
         \o Missing(Tail(fields), body)

RECURSIVE Invalid(_, _)
Invalid(fields, body) ==
  IF fields = <<>> THEN <<>>
  ELSE (IF FieldInvalid(Head(fields), body)
        THEN <<Str(PyStr(FieldName(Head(fields))) \o " (expected "
                     \o Get(Head(fields).v, "type", Str("string")).v \o ")")>>
        ELSE <<>>)
         \o Invalid(Tail(fields), body)

\* ', '.join(names)
RECURSIVE Join(_)
Join(names) ==
  IF names = <<>> THEN ""
  ELSE IF Len(names) = 1 THEN PyStr(names[1])
  ELSE PyStr(names[1]) \o ", " \o Join(Tail(names))

\* error_msg.strip()
ValidationMessage(missing, invalid) ==
  IF invalid # <<>>
  THEN "Validation Error: "
         \o (IF missing # <<>> THEN "Missing fields: " \o Join(missing) \o ". " ELSE "")
         \o "Invalid types: " \o Join(invalid) \o "."
  ELSE "Validation Error: Missing fields: " \o Join(missing) \o "."

ExecInterface(node, data, ctx, log) ==
  LET fields == Get(data, "fields", List(<<>>)).v
      body == Get(ctx, "body", Dict(EmptyMap))
      missing == Missing(fields, body)
      invalid == Invalid(fields, body)
      message == ValidationMessage(missing, invalid)
  IN  IF body.t \notin {"dict", "list"} /\ \E i \in 1..Len(fields) : Truthy(FieldName(fields[i]))
      THEN Raise(ctx, log, "TypeError: argument is not iterable")
      ELSE IF missing # <<>> \/ invalid # <<>>
      THEN Ret(ctx, Append(log, <<"Interface Validation Failed", message>>),
               ResResponse(Dict([error |-> Str("Bad Request"),
                                 message |-> Str(message),
                                 details |-> Dict([missing |-> List(missing),
                                                   invalid |-> List(invalid)])])))
      ELSE Ret(ctx, Append(log, <<"Interface Validation Passed">>), ResNone)

(* -------------------------- execute_node: response --------------------- *)
\* the replacement text of a value in the json branch
Render(x) ==
  CASE x.t = "bool" -> IF x.v THEN "true" ELSE "false"
    [] x.t \in {"num", "float", "str", "none"} -> PyStr(x)

\* the body texts of the family that hold a placeholder, cut around it:
\* the text before, the key between the braces, the text after
Template(body) ==
  CASE body = TotalBody -> <<"{\"total\": ", "sum", "}">>
    [] body = NameBody -> <<"{\"name\": \"", "s", "\"}">>
    [] OTHER -> <<body, "", "">>

\* final_body after the substitution loop (lines 467-480): the placeholder
\* of a key of the context is replaced by the text of its value
SubstituteBody(body_def, ctx) ==
  IF body_def.t = "str" /\ Template(body_def.v)[2] \in DOMAIN ctx
  THEN Str(Template(body_def.v)[1] \o Render(ctx[Template(body_def.v)[2]]) \o Template(body_def.v)[3])
  ELSE body_def

\* the except branch letting the parse error leave execute_node
OnParseErrorRaises(ctx, log, body_def) == Raise(ctx, log, "JSONDecodeError")

\* lines 483-485: the fallback payload with the raw body
OnParseError(ctx, log, body_def) ==
  Ret(ctx, Append(log, <<"Error parsing response body">>),
      ResResponse(Dict([raw |-> body_def, error |-> Str("JSON parse error")])))

ExecResponse(node, data, ctx, log) ==
  LET resp_type == Get(data, "responseType", Str("json"))
      body_def == Get(data, "body", Str("{}"))
      first == Get(ctx, KeyOf(body_def), None)
      val == IF ~Truthy(first) /\ body_def.t = "str" /\ IsExactRef(body_def.v)
             THEN Get(ctx, BraceKey(body_def.v), None)
             ELSE first
      parsed == JsonLoads(SubstituteBody(body_def, ctx).v)
  IN  IF resp_type = Str("variable")
      THEN IF ~Hashable(body_def) THEN Raise(ctx, log, "TypeError: unhashable type")
           ELSE Ret(ctx, log, ResResponse(val))
      ELSE IF body_def.t = "str" /\ parsed.ok
      THEN Ret(ctx, log, ResResponse(parsed.v))
      ELSE OnParseError(ctx, log, body_def)

(* ------------------------------ execute_node --------------------------- *)
\* node.get('data', {})
DataOf(node) == Get(node, "data", EmptyMap)

ExecuteNode(node, ctx, log) ==
  LET data == DataOf(node)
  IN  CASE node.type = "variable" -> ExecVariable(node, data, ctx, log)
        [] node.type = "logic" -> ExecLogic(node, data, ctx, log)
        [] node.type = "math" -> ExecMath(node, data, ctx, log)
        [] node.type = "data_op" -> ExecDataOp(node, data, ctx, log)
        [] node.type = "interface" -> ExecInterface(node, data, ctx, log)
        [] node.type = "loop" -> ExecLoop(node, data, ctx, log)
        [] node.type = "function" -> ExecFunction(node, data, ctx, log)
        [] node.type = "response" -> ExecResponse(node, data, ctx, log)
        [] OTHER -> Ret(ctx, log, ResNone)

(* -------------------------------- state -------------------------------- *)
VARIABLES
  nodes,          \* self.nodes: node id -> node
  order,          \* the iteration order of self.nodes
  edges,          \* self.edges
  adjacency,      \* self.adjacency
  context,        \* self.context
  execution_log,  \* self.execution_log
  pc,             \* where run() is: idle, init, exec, done, raised
  input_data,     \* the argument of run()
  init_pos,       \* position of the variable-initialisation loop in self.nodes
  init_done,      \* the ids of the nodes that loop has executed, in order
  current_nodes,  \* the current wave
  next_layer,     \* the targets collected for the next wave
  entry_count,    \* the number of waves begun
  pos,            \* position of the for loop in current_nodes
  outcomes,       \* what execute_node returned for current_nodes[1..pos-1]
  res,            \* the last value execute_node returned in the traversal
  result,         \* what run() returned
  exc,            \* the exception that left run(), "none" if none did
  runs,           \* the number of run() calls on this executor
  log_at_call,    \* len(self.execution_log) when run() was called
  first           \* outcome of the first run(), for a second call

vars ==
  <<nodes, order, edges, adjacency, context, execution_log, pc, input_data, init_pos,
    init_done, current_nodes, next_layer, entry_count, pos, outcomes, res, result, exc,
    runs, log_at_call, first>>

graph == <<nodes, order, edges, adjacency>>

NoResult == [pending |-> TRUE]

NoEntryResult == [error |-> "No API Entry Point found"]

Init ==
  /\ \E wf \in Workflows :
       /\ nodes = NodeMap(wf.nodes)
       /\ order = NodeOrder(wf.nodes)
       /\ edges = wf.edges
       /\ adjacency = Adjacency(wf.edges)
  /\ context = EmptyMap
  /\ execution_log = <<>>
  /\ pc = "idle"
  /\ input_data = None
  /\ init_pos = 0
  /\ init_done = <<>>
  /\ current_nodes = <<>>
  /\ next_layer = <<>>
  /\ entry_count = 0
  /\ pos = 0
  /\ outcomes = <<>>
  /\ res = ResNone
  /\ result = NoResult
  /\ exc = "none"
  /\ runs = 0
  /\ log_at_call = 0
  /\ first = NoResult

(* ------------------------------- run() --------------------------------- *)
\* entering run(): its locals are unset, the executor's fields are as they are
Enter(inp) ==
  /\ input_data' = inp
  /\ pc' = "init"
  /\ init_pos' = 1
  /\ init_done' = <<>>
  /\ current_nodes' = <<>>
  /\ next_layer' = <<>>
  /\ entry_count' = 0
  /\ pos' = 0
  /\ outcomes' = <<>>
  /\ res' = ResNone
  /\ result' = NoResult
  /\ exc' = "none"
  /\ runs' = runs + 1
  /\ log_at_call' = Len(execution_log)
  /\ UNCHANGED <<graph, context, execution_log>>

\* executor.run(input_data) on a new executor, as main.py calls it
Call ==
  /\ pc = "idle"
  /\ \E inp \in Inputs : Enter(inp)
  /\ UNCHANGED first

\* a further run() on the same executor, with the same input
Rerun ==
  /\ pc \in {"done", "raised"}
  /\ runs < MaxRuns
  /\ Enter(input_data)
  /\ first' = IF pc = "done" THEN result ELSE [raised |-> exc]

\* main.py lines 49-50 for a later request with the same input: a new
\* executor on the same workflow data, with a context and a log of its own.
\* (The order of a set of node ids follows the hashes of the strings, which
\* an interpreter draws anew each time it starts.)
CallAgain ==
  /\ pc \in {"done", "raised"}
  /\ runs < MaxRuns
  /\ context' = EmptyMap
  /\ execution_log' = <<>>
  /\ pc' = "init"
  /\ init_pos' = 1
  /\ init_done' = <<>>
  /\ current_nodes' = <<>>
  /\ next_layer' = <<>>
  /\ entry_count' = 0
  /\ pos' = 0
  /\ outcomes' = <<>>
  /\ res' = ResNone
  /\ result' = NoResult
  /\ exc' = "none"
  /\ runs' = runs + 1
  /\ log_at_call' = 0
  /\ first' = IF pc = "done" THEN result ELSE [raised |-> exc]
  /\ UNCHANGED <<graph, input_data>>

\* the initialisation loop without its type test
NeedsInitAny(node) == TRUE

\* the initialisation loop with the type misspelt
NeedsInitMisspelt(node) == node.type = "var"

\* "if node['type'] == 'variable'" of the initialisation loop
NeedsInit(node) == node.type = "variable"

\* one iteration of "for node_id, node in self.nodes.items()" (lines 27-29);
\* an exception of execute_node leaves run()
InitVariable ==
  /\ pc = "init"
  /\ init_pos <= Len(order)
  /\ LET node == nodes[order[init_pos]]
         r == ExecuteNode(node, context, execution_log)
     IN  IF ~NeedsInit(node)
         THEN /\ init_pos' = init_pos + 1
              /\ UNCHANGED <<nodes, context, execution_log, pc, exc, init_done>>
         ELSE /\ context' = r.ctx
              /\ nodes' = Written(nodes, r)
              /\ execution_log' = r.log
              /\ init_done' = Append(init_done, node.id)
              /\ IF r.exc # "none"
                 THEN pc' = "raised" /\ exc' = r.exc /\ UNCHANGED init_pos
                 ELSE init_pos' = init_pos + 1 /\ UNCHANGED <<pc, exc>>
  /\ UNCHANGED <<order, edges, adjacency, input_data, current_nodes, next_layer, entry_count,
                 pos, outcomes, res, result, runs, log_at_call, first>>

\* the ids of the api nodes in iteration order; the first is the start node
ApiPositions == {i \in 1..Len(order) : nodes[order[i]].type = "api"}

StartNode == nodes[order[CHOOSE i \in ApiPositions : \A j \in ApiPositions : i <= j]]

\* lines 46-55: request and the aliases body, query, params
Seed(ctx, inp) ==
  LET body == Get(inp.v, "body", None)
      query == Get(inp.v, "query", None)
      params == Get(inp.v, "params", None)
      c1 == Put(ctx, "request", inp)
      c2 == IF body.t = "dict" THEN Put(c1, "body", body) ELSE c1
      c3 == IF Truthy(query) THEN Put(c2, "query", query) ELSE c2
  IN  IF Truthy(params) THEN Put(c3, "params", params) ELSE c3

\* lines 38-40: no api node
NoEntry ==
  /\ pc = "init"
  /\ init_pos > Len(order)
  /\ ApiPositions = {}
  /\ result' = NoEntryResult
  /\ pc' = "done"
  /\ UNCHANGED <<graph, context, execution_log, input_data, init_pos, init_done,
                 current_nodes, next_layer, entry_count, pos, outcomes, res, exc, runs,
                 log_at_call, first>>

(* -------------------------- the wave traversal ------------------------- *)
\* the loop condition without the safety limit
WaveContinuesNoLimit(wave, count) == wave # <<>>

\* the loop condition one wave too generous
WaveContinuesOffByOne(wave, count) == wave # <<>> /\ count <= WaveLimit

\* "while current_nodes and entry_count < 1000"
WaveContinues(wave, count) == wave # <<>> /\ count < WaveLimit

\* the response test with the type misspelt
IsResponseMisspelt(r) == r.type = "reponse"

\* "if res and res.get('type') == 'response'"
IsResponse(r) == r.type = "response"

\* node_result: res.get('result') of a logic or loop result, else None
NodeResult(r) == IF r.type \in {"logic", "loop"} THEN r.result ELSE "None"

\* the routing with the outcome test forgotten on the false branch
FollowsFalseAlways(node_type, node_result, handle) ==
  IF node_type = "logic"
  THEN (node_result = "True" /\ handle = "true") \/ handle = "false"
  ELSE IF node_type = "loop"
  THEN (node_result = "do" /\ handle = "do") \/ (node_result = "done" /\ handle = "done")
  ELSE TRUE

\* the routing with the "done" edges of a loop never followed
FollowsDoOnly(node_type, node_result, handle) ==
  IF node_type = "logic"
  THEN (node_result = "True" /\ handle = "true") \/ (node_result = "False" /\ handle = "false")
  ELSE IF node_type = "loop"
  THEN node_result = "do" /\ handle = "do"
  ELSE TRUE

\* lines 117-131: whether the edge is followed
Follows(node_type, node_result, handle) ==
  IF node_type = "logic"
  THEN (node_result = "True" /\ handle = "true") \/ (node_result = "False" /\ handle = "false")
  ELSE IF node_type = "loop"
  THEN (node_result = "do" /\ handle = "do") \/ (node_result = "done" /\ handle = "done")
  ELSE TRUE

\* lines 111-131: the targets a node appends to next_layer, in edge order
RECURSIVE Targets(_, _, _)
Targets(node_type, node_result, es) ==
  IF es = <<>> THEN <<>>
  ELSE (IF Follows(node_type, node_result, Head(es).handle) THEN <<Head(es).target>> ELSE <<>>)
         \o Targets(node_type, node_result, Tail(es))

Routed(node_id, node_type, node_result) ==
  IF node_id \in DOMAIN adjacency
  THEN Targets(node_type, node_result, adjacency[node_id])
  ELSE <<>>

\* set(layer)
ToSet(layer) == {layer[i] : i \in 1..Len(layer)}

\* the next wave without the de-duplication
NextWavesKeepDuplicates(layer) == {layer}

\* list(set(next_layer)): the members once each, in an order the hashes decide
NextWaves(layer) ==
  {w \in [1..Cardinality(ToSet(layer)) -> ToSet(layer)] :
     \A i, j \in DOMAIN w : i # j => w[i] # w[j]}

GenericResult(ctx, log) ==
  [status |-> "success",
   message |-> "Workflow completed without specific response",
   logs |-> log,
   context |-> ctx]

\* lines 66-68 and 136-141: the loop test for the wave just computed; the
\* loop either begins that wave or is left, and then run() returns the
\* generic result
LoopTest(wave, ctx, log) ==
  /\ current_nodes' = wave
  /\ IF WaveContinues(wave, entry_count)
     THEN /\ entry_count' = entry_count + 1
          /\ next_layer' = <<>>
          /\ outcomes' = <<>>
          /\ pos' = 1
          /\ pc' = "exec"
          /\ UNCHANGED result
     ELSE /\ result' = GenericResult(ctx, log)
          /\ pc' = "done"
          /\ UNCHANGED <<entry_count, next_layer, outcomes, pos>>

\* lines 42-68: the start entry of the log, seeding, and the first loop test
Start ==
  /\ pc = "init"
  /\ init_pos > Len(order)
  /\ ApiPositions # {}
  /\ IF "data" \notin DOMAIN StartNode
     THEN /\ pc' = "raised"
          /\ exc' = "KeyError: 'data'"
          /\ UNCHANGED <<context, execution_log, current_nodes, entry_count, next_layer,
                         outcomes, pos, result>>
     ELSE /\ execution_log' = Append(execution_log,
                <<"Started execution at", Get(StartNode.data, "label", Str("API Entry"))>>)
          /\ context' = Seed(context, input_data)
          /\ LoopTest(<<StartNode.id>>, context', execution_log')
          /\ UNCHANGED exc
  /\ UNCHANGED <<graph, input_data, init_pos, init_done, res, runs, log_at_call, first>>

\* line 80 for a wave member that is no node: the KeyError leaves run()
LookupFails ==
  /\ pc = "exec"
  /\ pos <= Len(current_nodes)
  /\ current_nodes[pos] \notin DOMAIN nodes
  /\ pc' = "raised"
  /\ exc' = "KeyError: node id"
  /\ UNCHANGED <<graph, context, execution_log, input_data, init_pos, init_done,
                 current_nodes, next_layer, entry_count, pos, outcomes, res, result, runs,
                 log_at_call, first>>

\* the error entry replacing the log instead of being appended to it
FailedLogOnly(log, id, e) == <<<<"Error executing node", id, e>>>>

\* line 103: the error entry appended to the log
FailedLog(log, id, e) == Append(log, <<"Error executing node", id, e>>)

\* lines 80-131 for one member of the wave: the log entry, execute_node, then
\* the response return, the error return, or the routing
Execute ==
  /\ pc = "exec"
  /\ pos <= Len(current_nodes)
  /\ current_nodes[pos] \in DOMAIN nodes
  /\ LET node == nodes[current_nodes[pos]]
         r == ExecuteNode(node, context, Append(execution_log, <<"Executing", node.type, node.id>>))
         failed == FailedLog(r.log, node.id, r.exc)
     IN  /\ context' = r.ctx
         /\ nodes' = Written(nodes, r)
         /\ IF r.exc # "none"
            THEN /\ execution_log' = failed
                 /\ result' = [status |-> "error", error |-> r.exc, logs |-> failed]
                 /\ pc' = "done"
                 /\ UNCHANGED <<res, next_layer, pos, outcomes>>
            ELSE /\ execution_log' = r.log
                 /\ res' = r.res
                 /\ IF IsResponse(r.res)
                    THEN /\ result' = [status |-> "success", response |-> r.res.data,
                                       logs |-> r.log, context |-> r.ctx]
                         /\ pc' = "done"
                         /\ UNCHANGED <<next_layer, pos, outcomes>>
                    ELSE /\ next_layer' = next_layer \o Routed(node.id, node.type, NodeResult(r.res))
                         /\ outcomes' = Append(outcomes, r.res)
                         /\ pos' = pos + 1
                         /\ UNCHANGED <<result, pc>>
  /\ UNCHANGED <<order, edges, adjacency, input_data, init_pos, init_done, current_nodes,
                 entry_count, exc, runs, log_at_call, first>>

\* lines 133-134, then 66-68: the wave is consumed, the next one is the
\* de-duplicated layer, and the loop test decides whether it is run
NextWave ==
  /\ pc = "exec"
  /\ pos > Len(current_nodes)
  /\ \E w \in NextWaves(next_layer) : LoopTest(w, context, execution_log)
  /\ UNCHANGED <<graph, context, execution_log, input_data, init_pos, init_done, res, exc,
                 runs, log_at_call, first>>

Next ==
  \/ Call
  \/ InitVariable
  \/ NoEntry
  \/ Start
  \/ Execute
  \/ LookupFails
  \/ NextWave

Spec == Init /\ [][Next]_vars

\* the same executor called again: main.py never does, the class allows it
NextRerun == Next \/ Rerun

SpecRerun == Init /\ [][NextRerun]_vars

\* the same request served again by a new executor
NextAgain == Next \/ CallAgain

SpecAgain == Init /\ [][NextAgain]_vars

\* run() is never suspended: a call that has begun is carried on until it ends
FairSpec == Init /\ [][Next]_vars /\ WF_vars(Next)

(* ------------------------------- the claims ---------------------------- *)
Ended == pc \in {"done", "raised"}

Returned == pc = "done"

HasStatus(st) == Returned /\ "status" \in DOMAIN result /\ result.status = st

OneApi == Cardinality(ApiPositions) = 1

LastLog == execution_log[Len(execution_log)]

\* the exception left the variable-initialisation loop
RaisedInInit ==
  pc = "raised" /\ init_pos <= Len(order) /\ nodes[order[init_pos]].type = "variable"

\* the exception left the line that logs the start node's label
RaisedAtStart ==
  pc = "raised" /\ init_pos > Len(order) /\ entry_count = 0 /\ "data" \notin DOMAIN StartNode

\* the exception left the lookup of a wave member that is no node
RaisedInLookup ==
  pc = "raised" /\ init_pos > Len(order) /\ entry_count > 0 /\ pos \in 1..Len(current_nodes)
    /\ current_nodes[pos] \notin DOMAIN nodes

\* run() returned the error result for the wave member at pos
FailedInWave ==
  /\ HasStatus("error")
  /\ pos \in 1..Len(current_nodes)
  /\ LastLog = <<"Error executing node", current_nodes[pos], result.error>>

Executed == pc = "exec" /\ pc' = "exec" /\ pos' = pos + 1

\* the node the step executes
Current == nodes[current_nodes[pos]]

\* C2: once a node has yielded a response outcome, run() has returned the
\* success result with exactly that payload, no member of the wave after it
\* has been executed, and the context and the log are those of that moment.
C2_ResponseEndsRun ==
  res.type = "response" =>
    /\ HasStatus("success")
    /\ result.response = res.data
    /\ result.logs = execution_log
    /\ result.context = context
    /\ nodes[current_nodes[pos]].type \in {"response", "interface"}
    /\ Len(outcomes) = pos - 1

\* a response node has ended the run before its sibling in the wave ran
C2_Witness ==
  res.type = "response" /\ Returned /\ pos < Len(current_nodes) /\ nodes[current_nodes[pos]].type = "response"

\* the routing table of the graph router, over the edges of the workflow
Eligible(type, outcome, edge) ==
  LET handle == Get(edge, "sourceHandle", NoHandle)
  IN  CASE type = "logic" ->
             \/ outcome = [type |-> "logic", result |-> "True"] /\ handle = "true"
             \/ outcome = [type |-> "logic", result |-> "False"] /\ handle = "false"
        [] type = "loop" ->
             \/ outcome = [type |-> "loop", result |-> "do"] /\ handle = "do"
             \/ outcome = [type |-> "loop", result |-> "done"] /\ handle = "done"
        [] OTHER -> TRUE

\* the positions in self.edges of the edges of a node that are eligible
EligibleEdges(id, type, outcome) ==
  {i \in 1..Len(edges) : edges[i].source = id /\ Eligible(type, outcome, edges[i])}

\* the targets in edge order
RECURSIVE TargetsOf(_, _)
TargetsOf(es, positions) ==
  IF es = <<>> THEN <<>>
  ELSE TargetsOf(SubSeq(es, 1, Len(es) - 1), positions)
         \o (IF Len(es) \in positions THEN <<es[Len(es)].target>> ELSE <<>>)

\* C3: the targets an executed node adds to the next wave are those of its
\* eligible edges: for a logic or loop node the edges whose handle equals
\* the outcome, for any other node all its edges; the edges followed from a
\* logic or loop node all carry one handle.
C3_Routing ==
  [][Executed =>
       LET el == EligibleEdges(Current.id, Current.type, res')
       IN  /\ next_layer' = next_layer \o TargetsOf(edges, el)
           /\ Current.type \in {"logic", "loop"} =>
                Cardinality({Get(edges[i], "sourceHandle", NoHandle) : i \in el}) <= 1]_vars

\* a logic node with outcome true has added the target of its true edge only
C3_Witness ==
  /\ pc = "exec"
  /\ res = ResLogic(TRUE)
  /\ pos = 2
  /\ nodes[current_nodes[1]].type = "logic"
  /\ next_layer = <<"t">>

\* the set of eligible targets of the members of the wave just executed
EligibleTargets ==
  UNION {ToSet(TargetsOf(edges, EligibleEdges(current_nodes[i], nodes[current_nodes[i]].type, outcomes[i])))
           : i \in 1..Len(current_nodes)}

NoDuplicates(w) == \A i, j \in 1..Len(w) : i # j => w[i] # w[j]

\* the step consumes the wave and computes the next one
WaveConsumed == pc = "exec" /\ pos > Len(current_nodes)

\* C4: the next wave holds each eligible target of the members of the
\* current wave exactly once and nothing else, so a member of a wave is
\* executed at most once in it.
C4_NextWaveIsSet ==
  /\ [](NoDuplicates(current_nodes))
  /\ [][WaveConsumed => (NoDuplicates(current_nodes') /\ ToSet(current_nodes') = EligibleTargets)]_vars

\* the merge node of the fan-in, reached over three eligible edges, has been
\* executed once in its wave
C4_Witness ==
  /\ pc = "exec"
  /\ current_nodes = <<"m">>
  /\ pos = 2
  /\ Cardinality({i \in 1..Len(edges) : edges[i].target = "m"}) = 3

\* the index the context stores for a loop node, 0 when it stores none
StoredIndex(ctx, id) ==
  IF LoopKey \in DOMAIN ctx /\ ctx[LoopKey].t = "dict" /\ id \in DOMAIN ctx[LoopKey].v
  THEN ctx[LoopKey].v[id].v["index"].v
  ELSE 0

\* the collection and the bound variable of the loop node the step executes
CurrentCollection ==
  LoopLookup(ResolveVal(Get(DataOf(Current), "collection", Str("")), context), context)

CurrentVariable == KeyOf(Get(DataOf(Current), "variable", Str("item")))

\* the log entries of loop node id
LoopEntries(log, id) ==
  SelectSeq(log, LAMBDA entry : entry[1] = "Loop" /\ entry[2] = id)

\* n times "do" binding the elements in order, then one "done"
DoThenDone(id, coll) ==
  [k \in 1..(Len(coll) + 1) |->
     IF k <= Len(coll) THEN <<"Loop", id, "Item", k - 1, coll[k]>> ELSE <<"Loop", id, "Done">>]

Entered == pc = "init" /\ init_pos = 1 /\ init_done = <<>>

\* C6 as stated: every call of run(), also a second one on the same
\* executor, starts from an empty context and an empty log, and a second run
\* with the same input ends as the first did.
C6_FreshPerRun ==
  /\ Entered => (context = EmptyMap /\ execution_log = <<>>)
  /\ (runs = 2 /\ Ended) => first = (IF pc = "done" THEN result ELSE [raised |-> exc])

\* C7 as stated: a failure of a node, wherever in run() it happens, ends
\* run() with the error result that carries the message and the log so far;
\* no failure leaves run().
C7_FailureGivesErrorResult ==
  (exc # "none" \/ pc = "raised" \/ HasStatus("error")) =>
    (HasStatus("error") /\ result.logs = execution_log /\ exc = "none")

\* the ids of the variable nodes, in the order of self.nodes
RECURSIVE VariableIds(_)
VariableIds(ids) ==
  IF ids = <<>> THEN <<>>
  ELSE (IF nodes[Head(ids)].type = "variable" THEN <<Head(ids)>> ELSE <<>>)
         \o VariableIds(Tail(ids))

\* the names the variable nodes declare
VariableNames ==
  {KeyOf(nodes[id].data.name) :
     id \in {i \in DOMAIN nodes : nodes[i].type = "variable" /\ "name" \in DOMAIN nodes[i].data
                                    /\ Hashable(nodes[i].data.name)}}

\* C8 as stated: the no-entry error is returned before any node executor has
\* run, with the context unchanged and the log empty.
C8_NothingRan ==
  (Returned /\ result = NoEntryResult) =>
    (init_done = <<>> /\ context = EmptyMap /\ execution_log = <<>>)

\* C8 as amended: a run on a graph without api node ends with the no-entry
\* error, or with the exception of a failed variable initialisation; when
\* the error is returned no wave has begun, the nodes executed are the
\* variable nodes, once each, and what the call has written are the log
\* entries and context entries of the variable initialisation.
C8_OnlyVariablesRan ==
  /\ (ApiPositions = {} /\ Ended) => ((Returned /\ result = NoEntryResult) \/ RaisedInInit)
  /\ (Returned /\ result = NoEntryResult) =>
       /\ ApiPositions = {}
       /\ entry_count = 0 /\ current_nodes = <<>> /\ res = ResNone
       /\ init_done = VariableIds(order)
       /\ \A i \in (log_at_call + 1)..Len(execution_log) : execution_log[i][1] = "Set Variable"
       /\ Len(execution_log) - log_at_call <= Len(init_done)
       /\ DOMAIN context \subseteq VariableNames

\* the no-entry error has been returned after a variable was initialised
C8_Witness ==
  Returned /\ result = NoEntryResult /\ init_done # <<>> /\ execution_log # <<>>

\* wave 0 is about to be executed
WaveZero == pc = "exec" /\ entry_count = 1 /\ pos = 1

\* the traversal has begun
Traversing == pc = "exec" \/ (Returned /\ result # NoEntryResult)

\* C9 as stated: when wave 0 starts every variable node has been executed
\* once and the context holds an entry for the name of every variable node.
C9_EveryNameBound ==
  WaveZero =>
    /\ init_done = VariableIds(order)
    /\ \A id \in DOMAIN nodes :
         (nodes[id].type = "variable" /\ "name" \in DOMAIN nodes[id].data)
           => KeyOf(nodes[id].data.name) \in DOMAIN context

\* C9 as amended: once the traversal has begun every variable node of the
\* graph, reachable or not, has been executed exactly once by the
\* initialisation, in the order of the graph and before any wave member; when
\* wave 0 starts the context holds an entry for the name of every variable
\* node whose name is not empty.
C9_VariablesFirst ==
  /\ Traversing => init_done = VariableIds(order)
  /\ pc = "init" => \A i \in (log_at_call + 1)..Len(execution_log) :
                      execution_log[i][1] = "Set Variable"
  /\ WaveZero =>
       \A id \in DOMAIN nodes :
         (nodes[id].type = "variable" /\ "name" \in DOMAIN nodes[id].data
            /\ Truthy(nodes[id].data.name))
           => KeyOf(nodes[id].data.name) \in DOMAIN context

\* wave 0 starts with the variable of a node no edge leads to in the context
C9_Witness ==
  /\ WaveZero
  /\ \E id \in DOMAIN nodes :
       /\ nodes[id].type = "variable"
       /\ \A i \in 1..Len(edges) : edges[i].target # id
       /\ KeyOf(nodes[id].data.name) \in DOMAIN context
       /\ init_done[Len(init_done)] = id

\* C10: no more than 1000 waves are begun; when wave 1000 has been consumed
\* and the next wave is not empty, run() returns at once the generic result
\* with the log and the context, the result it also returns for an empty
\* wave, and executes nothing more.
C10_WaveLimit ==
  /\ [](entry_count <= WaveLimit)
  /\ []((Returned /\ "message" \in DOMAIN result) =>
          /\ result = [status |-> "success",
                       message |-> "Workflow completed without specific response",
                       logs |-> execution_log,
                       context |-> context]
          /\ (current_nodes = <<>> \/ entry_count = WaveLimit))
  /\ [][(WaveConsumed /\ entry_count = WaveLimit) =>
          (pc' = "done" /\ "message" \in DOMAIN result'
             /\ UNCHANGED <<context, execution_log, entry_count, outcomes>>)]_vars

\* the run has ended at the limit with a next wave that is not empty
C10_Witness ==
  /\ Returned
  /\ entry_count = WaveLimit
  /\ current_nodes # <<>>
  /\ "message" \in DOMAIN result
  /\ Len(result.logs) > WaveLimit

\* the step executes an interface node, the body in the context being a
\* mapping or absent
InterfaceStep ==
  /\ pc = "exec" /\ pos <= Len(current_nodes) /\ current_nodes[pos] \in DOMAIN nodes
  /\ Current.type = "interface"
  /\ Get(context, "body", Dict(EmptyMap)).t = "dict"

\* the body an interface node validates: an absent body is the empty mapping
BodyOf(ctx) == Get(ctx, "body", Dict(EmptyMap)).v

\* the five field types, each value being of one of them at most
TypeName(val) ==
  CASE val.t = "str" -> "string"
    [] val.t \in {"num", "float"} -> "number"
    [] val.t = "bool" -> "boolean"
    [] val.t = "dict" -> "object"
    [] val.t = "list" -> "array"
    [] OTHER -> "null"

\* the described fields of the node: those with a name
Described(node) ==
  LET fields == Get(DataOf(node), "fields", List(<<>>)).v
  IN  {i \in 1..Len(fields) : "name" \in DOMAIN fields[i].v /\ fields[i].v.name # Str("")}

FieldAt(node, i) == Get(DataOf(node), "fields", List(<<>>)).v[i].v

DeclaredType(node, i) == Get(FieldAt(node, i), "type", Str("string")).v

Absent(node, i, body) ==
  Get(FieldAt(node, i), "required", Bool(FALSE)) = Bool(TRUE) /\ FieldAt(node, i).name.v \notin DOMAIN body

WronglyTyped(node, i, body) ==
  FieldAt(node, i).name.v \in DOMAIN body
    /\ TypeName(body[FieldAt(node, i).name.v]) # DeclaredType(node, i)

\* the entry of the invalid list for field i
InvalidEntry(node, i) ==
  Str(FieldAt(node, i).name.v \o " (expected " \o DeclaredType(node, i) \o ")")

\* C11 as stated: an interface node yields a response outcome exactly when a
\* described field is required and absent from the body or present with a
\* value of the wrong type; the payload lists those fields under missing and
\* invalid and the run ends there with status "success".  Otherwise the node
\* yields no outcome, leaves the context as it is, and the traversal goes on
\* along all its edges.  An absent body is the empty mapping.
C11_InterfaceValidates ==
  [][InterfaceStep =>
       LET body == BodyOf(context)
           absent == {i \in Described(Current) : Absent(Current, i, body)}
           wrong == {i \in Described(Current) : WronglyTyped(Current, i, body)}
       IN  IF absent # {} \/ wrong # {}
           THEN /\ res'.type = "response"
                /\ ToSet(res'.data.v.details.v.missing.v) = {FieldAt(Current, i).name : i \in absent}
                /\ ToSet(res'.data.v.details.v.invalid.v) = {InvalidEntry(Current, i) : i \in wrong}
                /\ pc' = "done" /\ result'.status = "success" /\ result'.response = res'.data
           ELSE /\ res' = ResNone
                /\ context' = context
                /\ pc' = "exec"
                /\ next_layer' = next_layer \o TargetsOf(edges, {i \in 1..Len(edges) : edges[i].source = Current.id})]_vars

\* C12 as stated: the field types are disjoint; a present value is accepted
\* for a field of type t only when it is of type t, so a boolean for a number
\* field and a number for a boolean field are both put in the invalid list.
C12_TypesDisjoint ==
  [][InterfaceStep =>
       \A i \in Described(Current) :
         (FieldAt(Current, i).name.v \in DOMAIN BodyOf(context)
            /\ TypeName(BodyOf(context)[FieldAt(Current, i).name.v]) # DeclaredType(Current, i))
           => /\ res'.type = "response"
              /\ InvalidEntry(Current, i) \in ToSet(res'.data.v.details.v.invalid.v)]_vars

\* the step executes a logic node
LogicStep ==
  /\ pc = "exec" /\ pos <= Len(current_nodes) /\ current_nodes[pos] \in DOMAIN nodes
  /\ Current.type = "logic"

\* the targets of the edges of a node that carry a handle, in edge order
HandleTargets(id, handle) ==
  TargetsOf(edges, {i \in 1..Len(edges) :
                      edges[i].source = id /\ Get(edges[i], "sourceHandle", NoHandle) = handle})

\* C13 as stated: a logic node never fails the run; when the evaluation of
\* its condition raises an error the node yields logic(false), appends a log
\* entry, leaves the context unchanged and the traversal follows the edges
\* with handle "false"; "1 === 1" yields logic(true), "x > 10" without x in
\* the context yields logic(false).
C13_LogicNeverFails ==
  [][LogicStep =>
       /\ pc' = "exec"
       /\ res'.type = "logic"
       /\ Len(execution_log') = Len(execution_log) + 2
       /\ execution_log'[Len(execution_log')][1] = "Logic Error" =>
            /\ res'.result = "False"
            /\ context' = context
            /\ next_layer' = next_layer \o HandleTargets(Current.id, "false")
       /\ Get(DataOf(Current), "condition", Str("False")) = Str("1 === 1") => res'.result = "True"
       /\ (Get(DataOf(Current), "condition", Str("False")) = Str("x > 10") /\ "x" \notin DOMAIN context)
            => res'.result = "False"]_vars

\* the step executes a math node
MathStep ==
  /\ pc = "exec" /\ pos <= Len(current_nodes) /\ current_nodes[pos] \in DOMAIN nodes
  /\ Current.type = "math"

\* the resolved operands, the operator and the result variable of that node
OperandA == ResolveVal(Get(DataOf(Current), "valA", None), context)

OperandB == ResolveVal(Get(DataOf(Current), "valB", None), context)

Operator == Get(DataOf(Current), "op", Str("+")).v

ResultVar == KeyOf(Get(DataOf(Current), "resultVar", Str("result")))

\* the exact result of the operator on two numbers, a zero divisor giving 0
Exact(op, a, b) ==
  CASE op = "+" -> RAdd(a, b)
    [] op = "-" -> RSub(a, b)
    [] op = "*" -> RMul(a, b)
    [] op = "/" -> IF b[1] = 0 THEN <<0, 1>> ELSE RDiv(a, b)
    [] op = "%" -> IF b[1] = 0 THEN <<0, 1>> ELSE RMod(a, b)

\* a number as it is to be stored: an integer when it is whole
Stored(r) == IF r[2] = 1 THEN Num(r[1]) ELSE Frac(r[1], r[2])

\* C14 as stated: when both operands of a math node coerce to numbers, the
\* node stores the result of the operator (+ - * / %) under resultVar in
\* every case: 0 for a zero divisor, an integer for a whole result.
C14_MathStores ==
  [][(MathStep /\ CanFloat(OperandA) /\ CanFloat(OperandB) /\ Operator \in {"+", "-", "*", "/", "%"}) =>
       /\ pc' = "exec"
       /\ ResultVar \in DOMAIN context'
       /\ context'[ResultVar] = Stored(Exact(Operator, Float(OperandA), Float(OperandB)))]_vars

\* C15: when an operand of a math node does not coerce to a number, the
\* node with operator + stores the concatenation of the texts of the two
\* resolved operands under resultVar; with any other operator it appends a
\* failure entry to the log and leaves the whole context as it is.  Either
\* way nothing is raised and the traversal goes on.
C15_MathFallback ==
  [][(MathStep /\ ~(CanFloat(OperandA) /\ CanFloat(OperandB))) =>
       /\ pc' = "exec" /\ res' = ResNone /\ pos' = pos + 1
       /\ IF Operator = "+"
          THEN context' = Put(context, ResultVar, Str(PyStr(OperandA) \o PyStr(OperandB)))
          ELSE /\ context' = context
               /\ execution_log'[Len(execution_log')] = <<"Math Error", OperandA, Str(Operator), OperandB>>]_vars

\* a math node with a text operand and operator - has kept the old value of
\* its result variable, and the traversal has gone on
C15_Witness ==
  /\ pc = "exec"
  /\ \E i \in 1..Len(execution_log) : execution_log[i][1] = "Math Error" /\ execution_log[i][3] = Str("-")
  /\ "out" \in DOMAIN context /\ context["out"] = Str("old")
  /\ LastLog = <<"Ran function", Str("c")>>

\* a field value that is neither null nor empty
NonEmpty(x) ==
  CASE x.t = "none" -> FALSE
    [] x.t = "dict" -> DOMAIN x.v # {}
    [] x.t = "list" -> x.v # <<>>
    [] x.t = "str" -> x.v # ""
    [] OTHER -> TRUE

\* C16 as stated: when wave 0 starts the context maps request to the whole
\* input record, and for each of body, query and params it holds an alias
\* equal to the input field exactly when that field is present and neither
\* empty nor null, whatever the type of its value.
C16_AliasesSeeded ==
  WaveZero =>
    /\ "request" \in DOMAIN context /\ context["request"] = input_data
    /\ \A k \in {"body", "query", "params"} :
         (k \in DOMAIN context /\ k \in DOMAIN input_data.v /\ context[k] = input_data.v[k])
           <=> (k \in DOMAIN input_data.v /\ NonEmpty(input_data.v[k]))

\* C17 as stated: no step of a run changes the graph: the nodes with their
\* data, the edges and the adjacency index stay as the constructor left them,
\* also when a variable node stores its configured value in the context and
\* when a loop node updates the loop-state mapping.
C17_GraphUnchanged ==
  [][nodes' = nodes /\ order' = order /\ edges' = edges /\ adjacency' = adjacency]_vars

\* log is log2 or a beginning of it
IsPrefix(log, log2) == Len(log) <= Len(log2) /\ SubSeq(log2, 1, Len(log)) = log

\* C18: the log only grows during a run: in every step the log before is a
\* beginning of the log after; and every result of status "success" or
\* "error" carries the whole log as it is when run() returns.
C18_LogAppendOnly ==
  /\ [][IsPrefix(execution_log, execution_log')]_vars
  /\ []((HasStatus("success") \/ HasStatus("error")) => result.logs = execution_log)

\* a run has ended with status "error" in a later wave, and the result
\* carries all the entries from the start entry to the error entry
C18_Witness ==
  /\ HasStatus("error")
  /\ entry_count >= 3
  /\ Len(result.logs) >= 6
  /\ result.logs[1][1] = "Started execution at"
  /\ result.logs[Len(result.logs)][1] = "Error executing node"

\* C19 as stated: the result carries the context only when no response
\* ended the run: a result for a response outcome holds the status and the
\* payload and no context; the fall-through result (empty wave or wave limit)
\* holds the message, the logs and the context.
C19_ContextOnlyOnFallThrough ==
  /\ (Returned /\ res.type = "response") =>
       /\ result.status = "success" /\ result.response = res.data
       /\ "context" \notin DOMAIN result
  /\ (Returned /\ "status" \in DOMAIN result /\ result.status = "success" /\ res.type # "response") =>
       /\ {"message", "logs", "context"} \subseteq DOMAIN result
       /\ result.context = context

\* the step executes a response node whose configured body is a text
ResponseStep ==
  /\ pc = "exec" /\ pos <= Len(current_nodes) /\ current_nodes[pos] \in DOMAIN nodes
  /\ Current.type = "response"
  /\ Get(DataOf(Current), "body", Str("{}")).t = "str"

BodyText == Get(DataOf(Current), "body", Str("{}"))

\* the context entry a name designates, written with or without braces
Named(ctx, name) ==
  IF name \in DOMAIN ctx THEN ctx[name]
  ELSE IF IsExactRef(name) /\ BraceKey(name) \in DOMAIN ctx THEN ctx[BraceKey(name)]
  ELSE None

\* C20: a response node (its body being a text) always yields a response
\* outcome and the run ends there with status "success": with responseType
\* "variable" the payload is the named context entry as it is stored;
\* otherwise, when the body text after the substitution does not parse, the
\* payload is the fallback with the raw body text and the error marker, and
\* when it parses the payload is the parsed value.
C20_ResponseNeverFails ==
  [][ResponseStep =>
       /\ res'.type = "response"
       /\ pc' = "done" /\ result'.status = "success" /\ result'.response = res'.data
       /\ context' = context
       /\ IF Get(DataOf(Current), "responseType", Str("json")) = Str("variable")
          THEN res'.data = Named(context, BodyText.v)
          ELSE IF JsonLoads(SubstituteBody(BodyText, context).v).ok
          THEN res'.data = JsonLoads(SubstituteBody(BodyText, context).v).v
          ELSE res'.data = Dict([raw |-> BodyText, error |-> Str("JSON parse error")])]_vars

\* a string holding a quote has been substituted into the body text, and the
\* run has ended with status "success" and the fallback payload
C20_Witness ==
  /\ HasStatus("success")
  /\ res.type = "response"
  /\ "s" \in DOMAIN context /\ context["s"] = Str("a\"b")
  /\ result.response = Dict([raw |-> Str(NameBody), error |-> Str("JSON parse error")])
  /\ LastLog = <<"Error parsing response body">>

\* the entries of the log that tell the iteration of loop L with its body
\* and its continuation c: what the loop did, and each execution of a node
\* of the body and of c
Telling(entry) ==
  \/ entry[1] = "Loop" /\ entry[2] = "L"
  \/ entry[1] = "Executing" /\ entry[3] \notin {"a", "L"}

Told(log) == SelectSeq(log, Telling)

\* the number of nodes of the loop body: all nodes but a, v, L and c
BodyLen == Cardinality(DOMAIN nodes) - 4

\* the iteration of a collection in full, with a body of m nodes: each
\* element bound and the body run, in element order, then "done" and the
\* continuation run once
FullIteration(coll, m) ==
  [k \in 1..(Len(coll) * (m + 1) + 2) |->
     IF k = Len(coll) * (m + 1) + 1 THEN <<"Loop", "L", "Done">>
     ELSE IF k = Len(coll) * (m + 1) + 2 THEN <<"Executing", "function", "c">>
     ELSE IF (k - 1) % (m + 1) = 0
     THEN <<"Loop", "L", "Item", (k - 1) \div (m + 1), coll[((k - 1) \div (m + 1)) + 1]>>
     ELSE <<"Executing", nodes[BodyId((k - 1) % (m + 1))].type, BodyId((k - 1) % (m + 1))>>]

\* a run of the graph api -> L, L -do-> b -> ... -> L, L -done-> c has
\* returned
LoopRunEnded ==
  Returned /\ "L" \in DOMAIN nodes /\ "b" \in DOMAIN nodes /\ "c" \in DOMAIN nodes
    /\ "items" \in DOMAIN context

\* the waves such a run needs: the entry, then the loop and the body for each
\* element, the loop once more, the continuation
WavesNeeded(n, m) == n * (m + 1) + 3

\* C21 as stated: such a run executes the body exactly n times, once per
\* element in element order, and then the continuation exactly once, for
\* every n, whatever the wave limit.
C21_LoopRunsToTheEnd ==
  LoopRunEnded => Told(execution_log) = FullIteration(context["items"].v, BodyLen)

\* C21 as amended: the same, provided the run needs no more than the 1000
\* waves of the limit; a run that needs more is cut off at the limit with
\* the generic result: what it has executed is the beginning of the
\* iteration, and the continuation has not been executed.
C21_LoopRunsWithinLimit ==
  LoopRunEnded =>
    LET coll == context["items"].v
    IN  IF WavesNeeded(Len(coll), BodyLen) <= WaveLimit
        THEN Told(execution_log) = FullIteration(coll, BodyLen)
        ELSE /\ entry_count = WaveLimit /\ "message" \in DOMAIN result
             /\ IsPrefix(Told(execution_log), FullIteration(coll, BodyLen))
             /\ <<"Executing", "function", "c">> \notin ToSet(execution_log)

\* a run whose iteration needs more than 1000 waves has been cut off at the
\* limit, within the body and before the continuation
C21_Witness ==
  /\ LoopRunEnded
  /\ WavesNeeded(Len(context["items"].v), BodyLen) > WaveLimit
  /\ entry_count = WaveLimit
  /\ Len(Told(execution_log)) >= WaveLimit - 2

\* the step executes, in a wave, a node that writes the context under a name
\* of the graph's choice
WriterStep ==
  /\ pc = "exec" /\ pos <= Len(current_nodes) /\ current_nodes[pos] \in DOMAIN nodes
  /\ Current.type \in {"variable", "math", "data_op", "loop"}

LoopIds == {id \in DOMAIN nodes : nodes[id].type = "loop"}

\* what the context holds as the iteration index of a loop node: nothing, or
\* the entry of the loop-state mapping
IndexEntry(ctx, id) ==
  IF LoopKey \in DOMAIN ctx /\ ctx[LoopKey].t = "dict" /\ id \in DOMAIN ctx[LoopKey].v
  THEN <<ctx[LoopKey].v[id]>>
  ELSE <<>>

\* C22 as stated: whatever name the graph gives to the variable a variable,
\* math, data_op or loop node writes, executing that node never changes,
\* replaces or removes the iteration index of a loop node other than the
\* node executed.
C22_IndicesKeptApart ==
  [][WriterStep =>
       \A id \in LoopIds \ {current_nodes[pos]} :
          IndexEntry(context', id) = IndexEntry(context, id)]_vars

\* what C23 calls the result of run(): the status, the response payload and
\* the final context, as far as the result carries them
Outcome(r) == [k \in DOMAIN r \cap {"status", "response", "context", "raised"} |-> r[k]]

\* C23 as stated: the result of run() is determined by the graph and the
\* input alone: two runs on the same graph with the same input, each on an
\* executor of its own, end with the same status, response payload and
\* context, whatever the order in which the nodes of a wave are executed.
C23_ResultDetermined ==
  (runs = 2 /\ Ended) =>
     Outcome(first) = Outcome(IF pc = "done" THEN result ELSE [raised |-> exc])

====
